---- MODULE Spec2Model ----
(***************************************************************************)
(* A model of pilcrow.py, a static site generator: the url joiner, the     *)
(* content page constructor, the page registry, the asset synchronizer     *)
(* and the build pipeline that sequences them.                             *)
(*                                                                         *)
(* Python strings are modelled as sequences of one-character strings, so   *)
(* that joining, splitting and comparing them is computed and not assumed. *)
(***************************************************************************)
EXTENDS Integers, Sequences, FiniteSets, TLC

VARIABLES
    pc,           \* position of build(): the phase about to run
    options,      \* the inputs of the run: the --clean flag and the clean_urls
                  \* setting of the site's config file
    deploy0,      \* the files of the deploy directory when the run began
    clean_urls,   \* site['clean_urls']
    content,      \* the content tree on disk: a set of files [path, head]
    seen,         \* paths of the content files os.walk has already yielded
    pages,        \* PageManager.pages: id -> page
    years,        \* years: year -> sequence of page ids, in append order
    archived,     \* years the archive loop has already handled
    deployDirs,   \* directories that exist under the deploy root
    deployFiles,  \* files under the deploy root: path -> mtime
    rendered,     \* ids whose template render call has been made
    exitCode,     \* -1 while running, else the process exit status
    stderr,       \* lines written to stderr
    missed,       \* a template called get(id) with an id not in the registry
    assets,       \* the files tree on disk: path -> mtime
    synced,       \* asset paths the current walk has already handled
    run,          \* number of the asset walk in progress (1 or 2)
    now,          \* the wall clock
    transforms,   \* transforms and copies applied: run -> set of source paths
    urlParts, urlExt, urlOut,   \* a join_url call: arguments and result
    selArgs, selOut             \* a select call: arguments and result

vars == <<pc, options, deploy0, clean_urls, content, seen, pages, years, archived, deployDirs,
          deployFiles, rendered, exitCode, stderr, missed, assets, synced,
          run, now, transforms, urlParts, urlExt, urlOut, selArgs, selOut>>

----------------------------------------------------------------------------
(* Bounds of the model. *)

MaxFiles == 3      \* content files in the content tree
MaxAssets == 2     \* files in the asset tree
MaxTime == 3       \* latest clock value and latest source mtime
MaxParts == 2      \* arguments of a join_url call
MaxLimit == 2      \* largest limit of a select call

----------------------------------------------------------------------------
(* Strings. *)

\* The characters used, in ASCII order.
Alphabet ==
    <<" ", "-", ".", "/", "0", "1", "2", "3", "4", "5", "6", "7", "8", "9",
      "D", "I", "P", "T", "_",
      "a", "b", "c", "d", "e", "g", "h", "i", "l", "m", "n", "o", "p", "r",
      "s", "t", "u", "x", "y", "z", "~">>

Ord(c) == CHOOSE i \in 1..Len(Alphabet) : Alphabet[i] = c

\* str.lower on one character
LowerChar(c) ==
    CASE c = "D" -> "d" [] c = "I" -> "i" [] c = "P" -> "p" [] c = "T" -> "t"
      [] OTHER -> c

Lower(s) == [i \in 1..Len(s) |-> LowerChar(s[i])]

\* s < t for Python strings (lexicographic, shorter prefix first)
RECURSIVE StrLess(_, _)
StrLess(s, t) ==
    IF t = <<>> THEN FALSE
    ELSE IF s = <<>> THEN TRUE
    ELSE IF s[1] # t[1] THEN Ord(s[1]) < Ord(t[1])
    ELSE StrLess(Tail(s), Tail(t))

Digit(n) == Alphabet[5 + n]

\* str(n) for a natural number
RECURSIVE StrInt(_)
StrInt(n) == IF n < 10 THEN <<Digit(n)>> ELSE StrInt(n \div 10) \o <<Digit(n % 10)>>

\* sep.join(ss)
RECURSIVE Join(_, _)
Join(sep, ss) ==
    IF ss = <<>> THEN <<>>
    ELSE IF Len(ss) = 1 THEN ss[1]
    ELSE ss[1] \o sep \o Join(sep, Tail(ss))

\* index of the last occurrence of character c in s, 0 if none
RECURSIVE LastIndex(_, _)
LastIndex(s, c) ==
    IF s = <<>> THEN 0
    ELSE IF s[Len(s)] = c THEN Len(s)
    ELSE LastIndex(SubSeq(s, 1, Len(s) - 1), c)

\* os.path.basename
basename(p) == SubSeq(p, LastIndex(p, "/") + 1, Len(p))

\* os.path.dirname (of a relative path without a trailing slash run)
dirname(p) ==
    LET i == LastIndex(p, "/") IN IF i <= 1 THEN SubSeq(p, 1, i) ELSE SubSeq(p, 1, i - 1)

\* os.path.splitext: <<root, ext>>; a leading dot of the base name starts no extension
splitext(p) ==
    LET b == LastIndex(p, "/")
        d == LastIndex(p, ".")
    IN  IF d > b + 1 THEN <<SubSeq(p, 1, d - 1), SubSeq(p, d, Len(p))>>
        ELSE <<p, <<>>>>

\* os.path.join(a, b) for a relative b
pathjoin(a, b) ==
    IF a = <<>> THEN b
    ELSE IF a[Len(a)] = "/" THEN a \o b
    ELSE a \o <<"/">> \o b

----------------------------------------------------------------------------
(* Python values passed to join_url: a string, an integer or False. *)

PyString(s) == [t |-> "str", s |-> s, n |-> 0]
PyInt(n) == [t |-> "int", s |-> <<>>, n |-> n]
PyFalse == [t |-> "bool", s |-> <<>>, n |-> 0]

\* truth value of a Python value
Truthy(v) ==
    CASE v.t = "str" -> v.s # <<>>
      [] v.t = "int" -> v.n # 0
      [] OTHER -> FALSE

\* str(v)
PyStr(v) ==
    CASE v.t = "str" -> v.s
      [] v.t = "int" -> StrInt(v.n)
      [] OTHER -> <<"F", "a", "l", "s", "e">>

RECURSIVE Filter(_)
\* [s for s in parts if s]
Filter(parts) ==
    IF parts = <<>> THEN <<>>
    ELSE IF Truthy(Head(parts)) THEN <<Head(parts)>> \o Filter(Tail(parts))
    ELSE Filter(Tail(parts))

\* re.sub('//+', '/', s)
RECURSIVE CollapseSlashes(_)
CollapseSlashes(s) ==
    IF Len(s) < 2 THEN s
    ELSE IF s[1] = "/" /\ s[2] = "/" THEN CollapseSlashes(Tail(s))
    ELSE <<s[1]>> \o CollapseSlashes(Tail(s))

HtmlExt == <<".", "h", "t", "m", "l">>

\* a suffix that ignores site['clean_urls']
UrlSuffixNoClean(ext, clean) == IF ext THEN HtmlExt ELSE <<>>

\* the suffix join_url appends
UrlSuffix(ext, clean) == IF ext /\ ~clean THEN HtmlExt ELSE <<>>

\* '/'.join(str(s) for s in parts if s), slashes collapsed
UrlPath(parts) ==
    LET kept == Filter(parts)
    IN  CollapseSlashes(Join(<<"/">>, [i \in 1..Len(kept) |-> PyStr(kept[i])]))

\* join_url(*parts, ext=ext) with site['clean_urls'] = clean
join_url(parts, ext, clean) == UrlPath(parts) \o UrlSuffix(ext, clean)

----------------------------------------------------------------------------
(* Dates.  A datetime is [year, day]; None is NoneDate.  A front-matter    *)
(* date string is represented by the datetime dateutil parses it to, the   *)
(* empty string by NoneDate.                                               *)

NoneDate == [year |-> 0, day |-> 0]

\* time.mktime(dt.timetuple()): seconds grow with (year, day)
mktime(dt) == dt.year * 1000 + dt.day

\* timestamp = lambda dt: dt and int(time.mktime(dt.timetuple())) or 0
timestamp(dt) == IF dt # NoneDate THEN mktime(dt) ELSE 0

\* norm_time = lambda s: s and dateutil.parser.parse(str(s), fuzzy=True) or None
norm_time(d) == IF d # NoneDate THEN d ELSE NoneDate

\* norm_key = lambda s: re.sub('[- ]+', '_', s.lower())
RECURSIVE SubDashes(_)
SubDashes(s) ==
    IF s = <<>> THEN <<>>
    ELSE IF s[1] \in {"-", " "}
         THEN IF Len(s) > 1 /\ s[2] \in {"-", " "}
              THEN SubDashes(Tail(s))
              ELSE <<"_">> \o SubDashes(Tail(s))
         ELSE <<s[1]>> \o SubDashes(Tail(s))

norm_key(s) == SubDashes(Lower(s))

----------------------------------------------------------------------------
(* Pages. *)

K_date == <<"d", "a", "t", "e">>
K_posted == <<"p", "o", "s", "t", "e", "d">>
K_id == <<"i", "d">>
K_template == <<"t", "e", "m", "p", "l", "a", "t", "e">>
T_entry == <<"e", "n", "t", "r", "y">>
T_archive_year == <<"a", "r", "c", "h", "i", "v", "e", "_", "y", "e", "a", "r">>
T_archive_month == <<"a", "r", "c", "h", "i", "v", "e", "_", "m", "o", "n", "t", "h">>

\* Page.__init__(id): the default attributes.  src names the object (the file a
\* content page was read from, <<>> for a derived page); None links are <<>>.
Page(id) ==
    [cls |-> "Page", src |-> <<>>, id |-> id, date |-> NoneDate, posted |-> NoneDate,
     template |-> <<>>, prevpost |-> <<>>, nextpost |-> <<>>, entries |-> <<>>]

\* self[key] = self.NORM.get(key, identity)(val), for one front-matter item.
\* A front-matter value is [d, s]: its datetime for a date key, its text otherwise.
\* Keys other than the four below land in attributes that no modelled code reads.
SetItem(page, key, val) ==
    CASE key = K_date -> [page EXCEPT !.date = norm_time(val.d)]
      [] key = K_posted -> [page EXCEPT !.posted = norm_time(val.d)]
      [] key = K_id -> [page EXCEPT !.id = val.s]
      [] key = K_template -> [page EXCEPT !.template = val.s]
      [] OTHER -> page

\* for key, val in head.items(): ... (the heads of the model have no two keys
\* with the same normal form, so the iteration order does not matter)
RECURSIVE ApplyHead(_, _)
ApplyHead(page, items) ==
    IF items = {} THEN page
    ELSE LET it == CHOOSE x \in items : TRUE
         IN  ApplyHead(SetItem(page, norm_key(it.key), it.val), items \ {it})

\* an update of a dated page that leaves its id alone
DatedUpdateKeepId(page, id) ==
    [page EXCEPT !.template = IF page.template # <<>> THEN page.template ELSE T_entry]

\* the update of a dated page
DatedUpdate(page, id) ==
    [page EXCEPT
        !.id = join_url(<<PyInt(page.date.year), PyString(id)>>, FALSE, FALSE),
        !.template = IF page.template # <<>> THEN page.template ELSE T_entry,
        !.prevpost = <<>>,
        !.nextpost = <<>>]

\* ContentPage.__init__(fp) for the file f = [path, head]
ContentPage(f) ==
    LET id == splitext(basename(f.path))[1]
        p0 == [Page(id) EXCEPT !.cls = "ContentPage", !.src = f.path]
        p1 == ApplyHead(p0, f.head)
    IN  IF p1.date # NoneDate THEN DatedUpdate(p1, id) ELSE p1

\* ArchivePage.__init__(entries, year, month)
ArchivePage(entries, year, month) ==
    [Page(join_url(<<PyInt(year),
                     IF month # 0
                     THEN PyString((IF month < 10 THEN <<"0">> ELSE <<>>) \o StrInt(month))
                     ELSE PyInt(0)>>,
                   FALSE, FALSE))
        EXCEPT !.cls = "ArchivePage",
               !.entries = entries,
               !.template = IF month # 0 THEN T_archive_month ELSE T_archive_year]

EmptyMap == [x \in {} |-> 0]

\* an add without the duplicate test: the page replaces the one registered
addOverwrite(reg, page) == [pages |-> [x \in DOMAIN reg \cup {page.id} |->
                                        IF x = page.id THEN page ELSE reg[x]],
                            died |-> FALSE]

\* PageManager.add(page): the registry afterwards, and whether die() was called
add(reg, page) ==
    IF page.id \in DOMAIN reg
    THEN [pages |-> reg, died |-> TRUE]
    ELSE [pages |-> reg @@ (page.id :> page), died |-> FALSE]

\* Page.sortkey_origin / Page.sortkey_posted: (timestamp, id)
sortkey_origin(page) == <<timestamp(page.date), page.id>>
sortkey_posted(page) ==
    <<timestamp(IF page.posted # NoneDate THEN page.posted ELSE page.date), page.id>>

\* k1 < k2 for (timestamp, id) tuples
KeyLess(k1, k2) == k1[1] < k2[1] \/ (k1[1] = k2[1] /\ StrLess(k1[2], k2[2]))

sortkey(page, by_origin) == IF by_origin THEN sortkey_origin(page) ELSE sortkey_posted(page)

\* sorted(ps, key=...) for a set of pages with distinct ids
RECURSIVE Sorted(_, _)
Sorted(ps, by_origin) ==
    IF ps = {} THEN <<>>
    ELSE LET m == CHOOSE x \in ps : \A y \in ps \ {x} :
                      KeyLess(sortkey(x, by_origin), sortkey(y, by_origin))
         IN  <<m>> \o Sorted(ps \ {m}, by_origin)

Reverse(s) == [i \in 1..Len(s) |-> s[Len(s) + 1 - i]]

Range(f) == {f[x] : x \in DOMAIN f}

\* PageManager.all(sortby_origin)
all(reg, by_origin) == Sorted(Range(reg), by_origin)

\* triples with previous and next exchanged
neighboursSwapped(L) ==
    [i \in 1..Len(L) |->
        <<IF i = Len(L) THEN <<>> ELSE L[i + 1], L[i], IF i = 1 THEN <<>> ELSE L[i - 1]>>]

\* neighbours(L): the triples (previous, current, next), None as <<>>
neighbours(L) ==
    [i \in 1..Len(L) |->
        <<IF i = 1 THEN <<>> ELSE L[i - 1], L[i], IF i = Len(L) THEN <<>> ELSE L[i + 1]>>]

----------------------------------------------------------------------------
(* The file system under the deploy root.  Paths are relative to the root, *)
(* which is the empty path.                                                *)

\* mkdir(d): os.mkdir, OSError swallowed; os.mkdir creates d only when its
\* parent exists and nothing is at d
mkdir(dirs, files, d) ==
    IF dirname(d) \in dirs /\ d \notin dirs /\ d \notin DOMAIN files
    THEN dirs \cup {d}
    ELSE dirs

\* the directories os.walk has visited on the way down to d, each mkdir'ed
RECURSIVE MkdirWalk(_, _, _)
MkdirWalk(dirs, files, d) ==
    IF d = <<>> THEN mkdir(dirs, files, d)
    ELSE mkdir(MkdirWalk(dirs, files, dirname(d)), files, d)

\* sorted(S) for a set of strings
RECURSIVE SortedStrs(_)
SortedStrs(S) ==
    IF S = {} THEN <<>>
    ELSE LET m == CHOOSE x \in S : \A y \in S \ {x} : StrLess(x, y)
         IN  <<m>> \o SortedStrs(S \ {m})

\* for d in ds: mkdir(os.path.join(deploy_path, d))
RECURSIVE MkdirEach(_, _, _)
MkdirEach(dirs, files, ds) ==
    IF ds = <<>> THEN dirs
    ELSE MkdirEach(mkdir(dirs, files, Head(ds)), files, Tail(ds))

----------------------------------------------------------------------------
(* Site defaults (the yaml block of the module) and the inputs of the model. *)

E_md == <<".", "m", "d">>
E_less == <<".", "l", "e", "s", "s">>
E_css == <<".", "c", "s", "s">>

\* content_extensions: [text, markdown, mkdn, md], each with its dot
ContentExts ==
    {<<".", "t", "e", "x", "t">>, <<".", "m", "a", "r", "k", "d", "o", "w", "n">>,
     <<".", "m", "k", "d", "n">>, E_md}

\* files_rename: {.less: .css}
files_rename == (E_less :> E_css)

\* FILES_ACTIONS: the extensions handled by an external command (lessc)
FILES_ACTIONS == {E_less}

\* files_exclude "(^\\.|~$)" and files_include "^\\.htaccess$", both applied with
\* re.match, which anchors at the start of the name
excludes(fname) == (fname # <<>> /\ fname[1] = ".") \/ fname = <<"~">>
includes(fname) == fname = <<".", "h", "t", "a", "c", "c", "e", "s", "s">>

V_date(y, d) == [d |-> [year |-> y, day |-> d], s |-> <<>>]
V_str(s) == [d |-> NoneDate, s |-> s]
RawDate == <<"D", "a", "t", "e">>
S_custom == <<"c", "u", "s", "t", "o", "m">>
S_zz == <<"z", "z">>
S_2019 == <<"2", "0", "1", "9">>
S_deep == <<"2", "0", "1", "9", "/", "b", "/", "c">>
S_old == <<"o", "l", "d", ".", "h", "t", "m", "l">>

\* Front matters: dated posts of two years, a dated post that also sets id and
\* template, an empty date, and undated pages that set their id
Heads ==
    {{[key |-> RawDate, val |-> V_date(2019, 1)]},
     {[key |-> RawDate, val |-> V_date(2019, 2)]},
     {[key |-> RawDate, val |-> V_date(2020, 1)], [key |-> K_id, val |-> V_str(S_zz)],
      [key |-> K_template, val |-> V_str(S_custom)]},
     {[key |-> RawDate, val |-> V_str(<<>>)]},
     {[key |-> K_id, val |-> V_str(S_deep)]},
     {[key |-> K_id, val |-> V_str(S_2019)], [key |-> K_template, val |-> V_str(S_custom)]}}

ContentPaths ==
    {<<"a">> \o E_md, <<"b">> \o E_md, <<"s", "u", "b", "/", "c">> \o E_md}

\* a file of the content directory that is no content file
OtherFile == [path |-> <<"n", ".", "t", "x", "t">>, head |-> {}]

ContentFiles == {[path |-> p, head |-> h] : p \in ContentPaths, h \in Heads}

\* the trees of at most n files, one file per path
RECURSIVE TreesUpTo(_, _)
TreesUpTo(files, n) ==
    IF n = 0 THEN {{}}
    ELSE LET T == TreesUpTo(files, n - 1)
         IN  T \cup {t \cup {f} : t \in T, f \in files}

OnePerPath(t) == \A f, g \in t : f.path = g.path => f = g

ContentTrees(n) == {t \in TreesUpTo(ContentFiles \cup {OtherFile}, n) : OnePerPath(t)}

IsContent(f) == splitext(f.path)[2] \in ContentExts

\* Asset trees: path -> mtime
A_less == <<"s">> \o E_less
A_css == <<"s">> \o E_css
A_hidden == <<".", "x">>
A_sub == <<"2", "0", "1", "9", "/", "t", ".", "t", "x", "t">>
AssetPaths == {A_less, A_css, A_hidden, A_sub}

RECURSIVE MapsUpTo(_, _)
MapsUpTo(paths, n) ==
    IF n = 0 THEN {EmptyMap}
    ELSE LET M == MapsUpTo(paths, n - 1)
         IN  M \cup {m @@ (p :> t) : m \in M, p \in paths, t \in 1..MaxTime}

AssetTrees == MapsUpTo(AssetPaths, MaxAssets)

Defaults == [clean |-> FALSE, clean_urls |-> FALSE]

\* The runs of a build: with the defaults, no assets and an empty deploy
\* directory, or one asset in a subdirectory, over every content tree of at
\* most MaxFiles files; and, over the content trees of at most one file, with a
\* stale file in the deploy directory (kept, or removed by --clean) and with
\* clean urls.
Scenarios ==
    {[options |-> Defaults, assets |-> EmptyMap, deploy |-> EmptyMap, files |-> MaxFiles],
     [options |-> Defaults, assets |-> (A_sub :> 1), deploy |-> EmptyMap, files |-> MaxFiles],
     [options |-> Defaults, assets |-> EmptyMap, deploy |-> (S_old :> 1), files |-> 1],
     [options |-> [Defaults EXCEPT !.clean = TRUE], assets |-> EmptyMap,
      deploy |-> (S_old :> 1), files |-> 1],
     [options |-> [Defaults EXCEPT !.clean_urls = TRUE], assets |-> EmptyMap,
      deploy |-> EmptyMap, files |-> 1]}

----------------------------------------------------------------------------
(* build(): its phases, in statement order. *)

\* an order with scaffolding ahead of archive derivation
PhaseAfterSwapped(p) ==
    CASE p = "config" -> "assets"
      [] p = "assets" -> "content"
      [] p = "content" -> "scaffold"
      [] p = "scaffold" -> "archive"
      [] p = "archive" -> "render"
      [] OTHER -> "done"

\* the phase that follows p
PhaseAfter(p) ==
    CASE p = "config" -> "assets"
      [] p = "assets" -> "content"
      [] p = "content" -> "archive"
      [] p = "archive" -> "scaffold"
      [] p = "scaffold" -> "render"
      [] OTHER -> "done"

urlVars == <<urlParts, urlExt, urlOut>>
selVars == <<selArgs, selOut>>
syncVars == <<assets, synced, run, now, transforms>>
regVars == <<pages, years, archived>>
fsVars == <<deployDirs, deployFiles>>

\* die(msg): one line on stderr, sys.exit(1)
die(msg) ==
    /\ pc' = "exit"
    /\ exitCode' = 1
    /\ stderr' = <<msg>>

\* an exception nothing catches: the interpreter prints the traceback and
\* exits with status 1
Uncaught(exc) ==
    /\ pc' = "exit"
    /\ exitCode' = 1
    /\ stderr' = <<"Traceback (most recent call last):", exc>>

Running ==
    /\ exitCode' = exitCode
    /\ stderr' = stderr

\* lines 183-199: the site path is entered and the config file looked for,
\* either of which may fail; the file is read over the defaults and, with
\* --clean, the deploy directory is removed and made again
LoadConfig ==
    /\ pc = "config"
    /\ \/ /\ \E msg \in {"invalid path:", "site.yml not found"} : die(msg)
          /\ UNCHANGED <<clean_urls, fsVars>>
       \/ /\ clean_urls' = options.clean_urls
          /\ IF options.clean
             THEN deployFiles' = EmptyMap /\ deployDirs' = {<<>>}
             ELSE UNCHANGED fsVars
          /\ pc' = PhaseAfter(pc)
          /\ Running
    /\ UNCHANGED <<options, deploy0, content, seen, regVars, rendered, missed, syncVars,
                   urlVars, selVars>>

\* open(path, 'w').write(...) with modification time t
Put(files, path, t) ==
    [x \in DOMAIN files \cup {path} |-> IF x = path THEN t ELSE files[x]]

\* the destination of asset p: the same relative path, its extension renamed
Dest(p) ==
    LET ext == splitext(basename(p))[2]
    IN  IF ext \in DOMAIN files_rename
        THEN splitext(pathjoin(dirname(p), basename(p)))[1] \o files_rename[ext]
        ELSE pathjoin(dirname(p), basename(p))

\* a test that takes equal modification times for out of date
UpToDateStrict(src_mtime, files, dest) == dest \in DOMAIN files /\ src_mtime < files[dest]

\* the up-to-date test of line 212
UpToDate(src_mtime, files, dest) == dest \in DOMAIN files /\ src_mtime <= files[dest]

\* lines 203-215, for one file of the walk: its directory (and those above it)
\* mkdir'ed, then the file skipped, transformed by lessc, or copied by copy2
SyncFile(p) ==
    /\ pc = "assets"
    /\ p \in DOMAIN assets \ synced
    /\ synced' = synced \cup {p}
    /\ deployDirs' = MkdirWalk(deployDirs, deployFiles, dirname(p))
    /\ LET fname == basename(p)
           ext == splitext(fname)[2]
           dest == Dest(p)
       IN  IF (excludes(fname) /\ ~includes(fname)) \/ UpToDate(assets[p], deployFiles, dest)
           THEN /\ UNCHANGED <<pc, deployFiles, transforms>>
                /\ Running
           ELSE IF ext \in FILES_ACTIONS
           THEN \E status \in {0, 1} :
                   IF status > 0
                   THEN /\ die("lessc output")
                        /\ UNCHANGED <<deployFiles, transforms>>
                   ELSE /\ deployFiles' = Put(deployFiles, dest, now)
                        /\ transforms' = [transforms EXCEPT
                                             ![run] = @ \cup {[path |-> p, at |-> now]}]
                        /\ UNCHANGED pc
                        /\ Running
           ELSE /\ deployFiles' = Put(deployFiles, dest, assets[p])
                /\ transforms' = [transforms EXCEPT ![run] = @ \cup {[path |-> p, at |-> now]}]
                /\ UNCHANGED pc
                /\ Running
    /\ UNCHANGED <<options, deploy0, clean_urls, content, seen, regVars, rendered,
                   missed, assets, run, now, urlVars, selVars>>

\* line 216: the walk is over
EndSync ==
    /\ pc = "assets"
    /\ synced = DOMAIN assets
    /\ pc' = PhaseAfter(pc)
    /\ Running
    /\ UNCHANGED <<options, deploy0, clean_urls, content, seen, regVars, fsVars,
                   rendered, missed, syncVars, urlVars, selVars>>

\* lines 222-226, for one content file of the walk
ParseFile(f) ==
    /\ pc = "content"
    /\ f \in content
    /\ IsContent(f)
    /\ f.path \notin seen
    /\ seen' = seen \cup {f.path}
    /\ LET page == ContentPage(f)
           r == add(pages, page)
       IN  IF r.died
           THEN /\ die("duplicate page id")
                /\ UNCHANGED <<pages, years>>
           ELSE /\ pages' = r.pages
                /\ years' = IF page.date # NoneDate
                            THEN IF page.date.year \in DOMAIN years
                                 THEN [years EXCEPT ![page.date.year] = Append(@, page.id)]
                                 ELSE years @@ (page.date.year :> <<page.id>>)
                            ELSE years
                /\ UNCHANGED pc
                /\ Running
    /\ UNCHANGED <<options, deploy0, clean_urls, content, archived, fsVars, rendered,
                   missed, syncVars, urlVars, selVars>>

\* the walk of the content directory is over
EndContent ==
    /\ pc = "content"
    /\ \A f \in content : IsContent(f) => f.path \in seen
    /\ pc' = PhaseAfter(pc)
    /\ Running
    /\ UNCHANGED <<options, deploy0, clean_urls, content, seen, regVars, fsVars,
                   rendered, missed, syncVars, urlVars, selVars>>

\* post['prevpost'], post['nextpost'] = prevpost, nextpost for every triple
LinkAll(reg, triples) ==
    [id \in DOMAIN reg |->
        IF \E i \in DOMAIN triples : triples[i][2] = id
        THEN LET i == CHOOSE j \in DOMAIN triples : triples[j][2] = id
             IN  [reg[id] EXCEPT !.prevpost = triples[i][1], !.nextpost = triples[i][3]]
        ELSE reg[id]]

Min(S) == CHOOSE x \in S : \A y \in S : x <= y

\* lines 228-232, for the next year in ascending order
DeriveYear ==
    /\ pc = "archive"
    /\ DOMAIN years \ archived # {}
    /\ LET year == Min(DOMAIN years \ archived)
           sorted == Sorted({pages[id] : id \in Range(years[year])}, TRUE)
           posts == [i \in 1..Len(sorted) |-> sorted[i].id]
           r == add(pages, ArchivePage(posts, year, 0))
       IN  /\ archived' = archived \cup {year}
           /\ IF r.died
              THEN /\ die("duplicate page id")
                   /\ UNCHANGED pages
              ELSE /\ pages' = LinkAll(r.pages, neighbours(posts))
                   /\ UNCHANGED pc
                   /\ Running
    /\ UNCHANGED <<options, deploy0, clean_urls, content, seen, years, fsVars, rendered,
                   missed, syncVars, urlVars, selVars>>

EndArchive ==
    /\ pc = "archive"
    /\ DOMAIN years = archived
    /\ pc' = PhaseAfter(pc)
    /\ Running
    /\ UNCHANGED <<options, deploy0, clean_urls, content, seen, regVars, fsVars,
                   rendered, missed, syncVars, urlVars, selVars>>

\* lines 234-236: the directory of every page id, in sorted order
Scaffold ==
    /\ pc = "scaffold"
    /\ LET dirs == {dirname(id) : id \in DOMAIN pages} \ {<<>>}
       IN  deployDirs' = MkdirEach(deployDirs, deployFiles, SortedStrs(dirs))
    /\ pc' = PhaseAfter(pc)
    /\ Running
    /\ UNCHANGED <<options, deploy0, clean_urls, content, seen, regVars, deployFiles,
                   rendered, missed, syncVars, urlVars, selVars>>

S_no == <<"n", "o">>

\* ids a template may pass to get()
GetIds == {S_2019, S_no}

\* a write that drops the directory of the id
WritePageBase(id) ==
    /\ deployFiles' = Put(deployFiles, basename(id) \o HtmlExt, now)
    /\ UNCHANGED pc
    /\ Running

\* lines 176-178: the page written to {deploy}/{id}.html; open() raises IOError
\* when the directory of the file does not exist
WritePage(id) ==
    LET fname == pathjoin(<<>>, id) \o HtmlExt
    IN  IF dirname(fname) \in deployDirs
        THEN /\ deployFiles' = Put(deployFiles, fname, now)
             /\ UNCHANGED pc
             /\ Running
        ELSE /\ Uncaught("IOError")
             /\ UNCHANGED deployFiles

\* lines 166-180 and 254-255, for one page of the registry.  The template
\* engine is outside the repository: a lookup or a render either succeeds,
\* fails with a MakoException, or meets an undefined name (NameError); while it
\* renders, the template may call site['get'](id), which is pages[str(id)]
\* (lines 155-156 and 246) and raises KeyError for an id not in the registry.
RenderPage(id) ==
    /\ pc = "render"
    /\ id \in DOMAIN pages \ rendered
    /\ rendered' = rendered \cup {id}
    /\ \/ /\ WritePage(id)
          /\ UNCHANGED missed
       \/ /\ die("template error: undefined variable in")
          /\ UNCHANGED <<deployFiles, missed>>
       \/ /\ die("template error:")
          /\ UNCHANGED <<deployFiles, missed>>
       \/ \E gid \in GetIds :
             IF gid \in DOMAIN pages
             THEN /\ WritePage(id)
                  /\ UNCHANGED missed
             ELSE /\ missed' = TRUE
                  /\ Uncaught("KeyError")
                  /\ UNCHANGED deployFiles
    /\ UNCHANGED <<options, deploy0, clean_urls, content, seen, regVars, deployDirs,
                   syncVars, urlVars, selVars>>

\* build() returns and the interpreter exits with status 0
Finish ==
    /\ pc = "render"
    /\ rendered = DOMAIN pages
    /\ pc' = PhaseAfter(pc)
    /\ exitCode' = 0
    /\ UNCHANGED <<options, deploy0, clean_urls, content, seen, regVars, fsVars,
                   rendered, stderr, missed, syncVars, urlVars, selVars>>

\* the asset walk of a second build of the same site, with no change to the
\* files tree
Rerun ==
    /\ pc = "content"
    /\ run = 1
    /\ run' = 2
    /\ synced' = {}
    /\ pc' = "assets"
    /\ Running
    /\ UNCHANGED <<options, deploy0, clean_urls, content, seen, regVars, fsVars,
                   rendered, missed, assets, now, transforms, urlVars, selVars>>

\* time passes
Tick ==
    /\ now < MaxTime
    /\ now' = now + 1
    /\ UNCHANGED <<pc, options, deploy0, clean_urls, content, seen, regVars, fsVars,
                   rendered, exitCode, stderr, missed, assets, synced, run, transforms,
                   urlVars, selVars>>

NoResult == <<"unset">>

\* a call of join_url(*urlParts, ext=urlExt)
JoinUrlCall ==
    /\ pc = "assets"
    /\ urlOut = NoResult
    /\ urlOut' = join_url(urlParts, urlExt, clean_urls)
    /\ UNCHANGED <<pc, options, deploy0, clean_urls, content, seen, regVars, fsVars,
                   rendered, exitCode, stderr, missed, syncVars, urlParts, urlExt,
                   selVars>>

\* a select that sorts by posted date whatever chrono and sortby_origin are
selectSameKey(reg, limit, dated, chrono, sortby) ==
    LET r0 == all(reg, FALSE)
        r1 == IF ~chrono THEN Reverse(r0) ELSE r0
        HasDate(pg) == pg.date # NoneDate
        r2 == IF dated THEN SelectSeq(r1, HasDate) ELSE r1
    IN  IF limit.some /\ limit.n < Len(r2) THEN SubSeq(r2, 1, limit.n) ELSE r2

\* select(limit, dated, chrono, sortby_origin) of lines 238-243.  limit is
\* [some, n]: None, or a count n >= 0; sortby is "None", "True" or "False".
select(reg, limit, dated, chrono, sortby) ==
    LET sortby_origin == IF sortby = "None" THEN chrono ELSE sortby = "True"
        r0 == all(reg, sortby_origin)
        r1 == IF ~chrono THEN Reverse(r0) ELSE r0
        HasDate(pg) == pg.date # NoneDate
        r2 == IF dated THEN SelectSeq(r1, HasDate) ELSE r1
    IN  IF limit.some /\ limit.n < Len(r2) THEN SubSeq(r2, 1, limit.n) ELSE r2

Ids(ps) == [i \in 1..Len(ps) |-> ps[i].id]

NoArgs == [limit |-> [some |-> FALSE, n |-> 0], dated |-> TRUE, chrono |-> FALSE,
           sortby |-> "unset"]

SelectArgs ==
    [limit : {[some |-> FALSE, n |-> 0]} \cup {[some |-> TRUE, n |-> k] : k \in 0..MaxLimit},
     dated : BOOLEAN, chrono : BOOLEAN, sortby : {"None", "True", "False"}]

\* a template calls site['pages'](...)
SelectCall ==
    /\ pc = "render"
    /\ selArgs = NoArgs
    /\ \E a \in SelectArgs :
          /\ selArgs' = a
          /\ selOut' = Ids(select(pages, a.limit, a.dated, a.chrono, a.sortby))
    /\ UNCHANGED <<pc, options, deploy0, clean_urls, content, seen, regVars, fsVars,
                   rendered, exitCode, stderr, missed, syncVars, urlVars>>

----------------------------------------------------------------------------
(* Specifications. *)

InitCommon ==
    /\ clean_urls = FALSE
    /\ seen = {}
    /\ pages = EmptyMap
    /\ years = EmptyMap
    /\ archived = {}
    /\ deployDirs = {<<>>}
    /\ rendered = {}
    /\ exitCode = -1
    /\ stderr = <<>>
    /\ missed = FALSE
    /\ synced = {}
    /\ run = 1
    /\ transforms = [r \in {1, 2} |-> {}]
    /\ selArgs = NoArgs
    /\ selOut = NoResult

\* one build of a site
Init ==
    /\ InitCommon
    /\ pc = "config"
    /\ \E sc \in Scenarios :
          /\ content \in ContentTrees(sc.files)
          /\ options = sc.options
          /\ assets = sc.assets
          /\ deploy0 = sc.deploy
          /\ deployFiles = sc.deploy
    /\ now = 1
    /\ urlParts = <<>>
    /\ urlExt = TRUE
    /\ urlOut = NoResult

Next ==
    \/ LoadConfig
    \/ \E p \in DOMAIN assets : SyncFile(p)
    \/ EndSync
    \/ \E f \in content : ParseFile(f)
    \/ EndContent
    \/ DeriveYear
    \/ EndArchive
    \/ Scaffold
    \/ \E id \in DOMAIN pages : RenderPage(id)
    \/ Finish

Spec == Init /\ [][Next]_vars

----------------------------------------------------------------------------
(* Properties of one build (Spec). *)

ContentPages == {pg \in Range(pages) : pg.cls = "ContentPage"}
ArchivePages == {pg \in Range(pages) : pg.cls = "ArchivePage"}
Dated == {pg \in ContentPages : pg.date # NoneDate}
DiedOf(msg) == pc = "exit" /\ exitCode = 1 /\ stderr = <<msg>>
FileOf(pg) == CHOOSE f \in content : f.path = pg.src

\* the base name of each content path of the model, written out
BaseOf(path) ==
    CASE path = <<"a">> \o E_md -> <<"a">>
      [] path = <<"b">> \o E_md -> <<"b">>
      [] OTHER -> <<"c">>

\* the text a front matter gives for a key, <<>> when it has no such key
HeadText(f, key) ==
    IF \E it \in f.head : it.key = key
    THEN (CHOOSE it \in f.head : it.key = key).val.s
    ELSE <<>>

HasKey(f, key) == \E it \in f.head : it.key = key

\* C1: an add of a page whose id is already in the registry ends in die (one
\* line on stderr, exit status 1) and leaves the registry as it was; no step
\* ever replaces the page an id is mapped to.
C1_DuplicateAddDies ==
    [][/\ \A id \in DOMAIN pages :
            /\ id \in DOMAIN pages'
            /\ pages'[id].src = pages[id].src
            /\ pages'[id].cls = pages[id].cls
       /\ \A f \in content :
            (pc = "content" /\ f.path \in seen' \ seen /\ ContentPage(f).id \in DOMAIN pages)
                => (DiedOf("duplicate page id"))' /\ pages' = pages
       /\ (pc = "archive" /\ archived' # archived
              /\ StrInt(Min(DOMAIN years \ archived)) \in DOMAIN pages)
                => (DiedOf("duplicate page id"))' /\ pages' = pages]_vars

\* a second content file with the id of a page already added made the build
\* die, and the registry holds the first
C1_Witness ==
    /\ DiedOf("duplicate page id")
    /\ \E f \in content :
          /\ f.path \in seen
          /\ ContentPage(f).id \in DOMAIN pages
          /\ pages[ContentPage(f).id].src # f.path

AfterArchive == pc \in {"scaffold", "render", "done"}

Before(q, p) ==
    \/ timestamp(q.date) < timestamp(p.date)
    \/ timestamp(q.date) = timestamp(p.date) /\ StrLess(q.id, p.id)

SameYear(p) == {q \in Dated : q.date.year = p.date.year}

\* C2: after archive derivation every dated content page is linked to the
\* pages next to it in the (origin timestamp, id) order of its own year: prevpost
\* is the closest page before it, nextpost the closest after it, None at the ends.
C2_YearChain ==
    AfterArchive =>
        \A p \in Dated :
            LET before == {q \in SameYear(p) : Before(q, p)}
                after == {q \in SameYear(p) : Before(p, q)}
            IN  /\ IF before = {} THEN p.prevpost = <<>>
                   ELSE /\ p.prevpost \in {q.id : q \in before}
                        /\ \A r \in before : r.id = p.prevpost \/ Before(r, pages[p.prevpost])
                /\ IF after = {} THEN p.nextpost = <<>>
                   ELSE /\ p.nextpost \in {q.id : q \in after}
                        /\ \A r \in after : r.id = p.nextpost \/ Before(pages[p.nextpost], r)

\* three posts of one year were linked: the middle one has both neighbours
C2_Witness ==
    /\ pc = "done"
    /\ \E p \in Dated :
          /\ Cardinality(SameYear(p)) = 3
          /\ p.prevpost # <<>>
          /\ p.nextpost # <<>>
          /\ p.prevpost # p.nextpost

\* C5 as claimed: a dated content page has id {year}/{base name} whatever the
\* front matter says and template "entry" unless the front matter gives one; a
\* page without a date has the base name as id and an empty template.
C5_Claimed ==
    \A pg \in ContentPages :
        IF pg.date # NoneDate
        THEN /\ pg.id = StrInt(pg.date.year) \o <<"/">> \o BaseOf(pg.src)
             /\ pg.template = IF HeadText(FileOf(pg), K_template) # <<>>
                              THEN HeadText(FileOf(pg), K_template) ELSE T_entry
        ELSE /\ pg.id = BaseOf(pg.src)
             /\ pg.template = <<>>

\* C5, amended: as claimed for a dated page; a page without a date has the id
\* and the template its front matter gives, and the base name and the empty
\* template only where the front matter has no such key.
C5_IdAndTemplate ==
    \A pg \in ContentPages :
        IF pg.date # NoneDate
        THEN /\ pg.id = StrInt(pg.date.year) \o <<"/">> \o BaseOf(pg.src)
             /\ pg.template = IF HeadText(FileOf(pg), K_template) # <<>>
                              THEN HeadText(FileOf(pg), K_template) ELSE T_entry
        ELSE /\ pg.id = IF HasKey(FileOf(pg), K_id)
                        THEN HeadText(FileOf(pg), K_id) ELSE BaseOf(pg.src)
             /\ pg.template = HeadText(FileOf(pg), K_template)

\* a dated page whose front matter sets id and template, a plain dated page and
\* an undated page whose front matter sets its id are in the registry
C5_Witness ==
    /\ \E pg \in Dated : HasKey(FileOf(pg), K_id) /\ pg.template = S_custom
    /\ \E pg \in Dated : pg.template = T_entry
    /\ \E pg \in ContentPages : pg.date = NoneDate /\ HasKey(FileOf(pg), K_id)

HtmlFiles == {p \in DOMAIN deployFiles : Len(p) > 5 /\ SubSeq(p, Len(p) - 4, Len(p)) = HtmlExt}

CleanStart == assets = EmptyMap /\ (deploy0 = EmptyMap \/ options.clean)

\* C6: after a successful build into an empty deploy directory with no assets
\* the registry holds one page per content file and one year archive per year
\* of a dated page, nothing else, and the html files of the deploy tree are
\* {id}.html for the ids of the registry; two of them for one dated content file.
C6_PagesAndFiles ==
    (pc = "done" /\ CleanStart) =>
        LET files == {f \in content : f # OtherFile}
            ys == {pg.date.year : pg \in Dated}
        IN  /\ {pg.src : pg \in ContentPages} = {f.path : f \in files}
            /\ Cardinality(ContentPages) = Cardinality(files)
            /\ {pg.id : pg \in ArchivePages} = {StrInt(y) : y \in ys}
            /\ \A pg \in ArchivePages : pg.template = T_archive_year
            /\ Cardinality(DOMAIN pages) = Cardinality(files) + Cardinality(ys)
            /\ HtmlFiles = {id \o HtmlExt : id \in DOMAIN pages}
            /\ DOMAIN deployFiles = HtmlFiles
            /\ (Cardinality(files) = 1 /\ Dated # {}) => Cardinality(DOMAIN deployFiles) = 2

\* a site of one dated content file was built
C6_Witness ==
    /\ pc = "done"
    /\ CleanStart
    /\ Cardinality(content) = 1
    /\ Dated # {}
    /\ Cardinality(DOMAIN deployFiles) = 2

Rank(p) ==
    CASE p = "config" -> 0
      [] p = "assets" -> 1
      [] p = "content" -> 2
      [] p = "archive" -> 3
      [] p = "scaffold" -> 4
      [] p = "render" -> 5
      [] p = "done" -> 6
      [] OTHER -> 7

\* C7: the phases run in the order config, assets, content, archive, scaffold,
\* render, each complete before the next starts; the registry and the links
\* change only in the content and archive phases, before any render call, and
\* rendering changes neither the registry nor a page.
C7_PhaseOrder ==
    /\ [](/\ (rendered # {} \/ Rank(pc) \in 5..6) =>
                /\ \A f \in content : f # OtherFile => f.path \in seen
                /\ archived = DOMAIN years
                /\ synced = DOMAIN assets
          /\ (Rank(pc) \in 2..6) => synced = DOMAIN assets
          /\ (Rank(pc) \in 3..6) => \A f \in content : f # OtherFile => f.path \in seen
          /\ (Rank(pc) \in 4..6) => archived = DOMAIN years
          /\ (Rank(pc) < 5) => rendered = {}
          /\ (Rank(pc) < 4) => deployDirs \subseteq {<<>>} \cup {dirname(p) : p \in DOMAIN assets}
          /\ pc = "done" => rendered = DOMAIN pages)
    /\ [][/\ pc' = pc \/ pc' = "exit" \/ Rank(pc') = Rank(pc) + 1
          /\ pages' # pages => pc \in {"content", "archive"} /\ rendered = {}
          /\ years' # years => pc = "content"
          /\ (pc = "render" \/ rendered # {}) => pages' = pages /\ years' = years
          /\ deployDirs' # deployDirs => pc \in {"config", "assets", "scaffold"}]_vars

\* a build that linked two posts and rendered every page
C7_Witness ==
    /\ pc = "done"
    /\ rendered # {}
    /\ \E p \in Dated : p.nextpost # <<>>
    /\ assets # EmptyMap

\* C8: a get(id) of an id that is not in the registry ends the build like any
\* fatal error: exit status 1 and the one line "not found" on stderr.
C8_GetMissingDies ==
    missed => /\ pc = "exit"
              /\ exitCode = 1
              /\ stderr = <<"not found">>

\* C10: when rendering begins the directory of {deploy}/{id}.html exists for
\* every page of the registry.
C10_DirsExist ==
    pc = "render" => \A id \in DOMAIN pages : dirname(id \o HtmlExt) \in deployDirs

----------------------------------------------------------------------------
(* The asset walk, run twice over an unchanged files tree (SpecSync). *)

Idle ==
    /\ options = Defaults
    /\ deploy0 = EmptyMap
    /\ deployFiles = EmptyMap

UrlIdle ==
    /\ urlParts = <<>>
    /\ urlExt = TRUE
    /\ urlOut = NoResult

InitSync ==
    /\ InitCommon
    /\ Idle
    /\ UrlIdle
    /\ pc = "assets"
    /\ content = {}
    /\ assets \in AssetTrees
    /\ now \in 1..MaxTime

NextSync ==
    \/ \E p \in DOMAIN assets : SyncFile(p)
    \/ EndSync
    \/ Rerun
    \/ Tick

SpecSync == InitSync /\ [][NextSync]_vars

External(p) == splitext(basename(p))[2] \in FILES_ACTIONS

\* C3 as claimed: the second walk applies no transform and no copy.
C3_Claimed == run = 2 => transforms[2] = {}

\* no source compiled by lessc in the first walk had a modification time later
\* than the clock at that moment
NotFromTheFuture == \A t \in transforms[1] : External(t.path) => assets[t.path] <= t.at

\* the destination each asset path of the model is written to, written out
DestOf(p) == IF p = A_less THEN A_css ELSE p

\* C3, amended: when no lessc source of the first walk carried a modification
\* time in the future, every file the first walk did not exclude has a
\* destination at least as new as itself when the second walk starts, and the
\* second walk applies no transform and no copy.
C3_SecondRunIdle ==
    (run = 2 /\ NotFromTheFuture) =>
        /\ transforms[2] = {}
        /\ \A p \in DOMAIN assets \ {A_hidden} :
              /\ DestOf(p) \in DOMAIN deployFiles
              /\ assets[p] <= deployFiles[DestOf(p)]
        /\ A_hidden \notin DOMAIN deployFiles

\* the first walk compiled a .less file and copied another file, and the
\* second walk is over
C3_Witness ==
    /\ run = 2
    /\ synced = DOMAIN assets
    /\ NotFromTheFuture
    /\ \E t \in transforms[1] : External(t.path)
    /\ \E t \in transforms[1] : ~External(t.path)
    /\ transforms[2] = {}

----------------------------------------------------------------------------
(* select, called on the registry of a built site (SpecSelect). *)

RawPosted == <<"P", "o", "s", "t", "e", "d">>

\* Front matters: three dates, a post published a year after its date, no date
SelectHeads ==
    {{[key |-> RawDate, val |-> V_date(2020, 1)]},
     {[key |-> RawDate, val |-> V_date(2020, 6)]},
     {[key |-> RawDate, val |-> V_date(2021, 1)]},
     {[key |-> RawDate, val |-> V_date(2020, 1)], [key |-> RawPosted, val |-> V_date(2021, 6)]},
     {[key |-> RawDate, val |-> V_str(<<>>)]}}

SelectTrees ==
    {t \in TreesUpTo({[path |-> p, head |-> h] : p \in ContentPaths, h \in SelectHeads},
                     MaxFiles) : OnePerPath(t)}

InitSelect ==
    /\ InitCommon
    /\ Idle
    /\ UrlIdle
    /\ pc = "content"
    /\ content \in SelectTrees
    /\ assets = EmptyMap
    /\ now = 1

NextSelect ==
    \/ \E f \in content : ParseFile(f)
    \/ EndContent
    \/ DeriveYear
    \/ EndArchive
    \/ Scaffold
    \/ SelectCall

SpecSelect == InitSelect /\ [][NextSelect]_vars

PostedOf(pg) == IF pg.posted # NoneDate THEN pg.posted ELSE pg.date
StampOf(dt) == IF dt = NoneDate THEN 0 ELSE dt.year * 1000 + dt.day

\* p comes before q by posted date, or by origin date, the id breaking a tie
PostedBefore(p, q) ==
    \/ StampOf(PostedOf(p)) < StampOf(PostedOf(q))
    \/ StampOf(PostedOf(p)) = StampOf(PostedOf(q)) /\ StrLess(p.id, q.id)
OriginBefore(p, q) ==
    \/ StampOf(p.date) < StampOf(q.date)
    \/ StampOf(p.date) = StampOf(q.date) /\ StrLess(p.id, q.id)

\* the ids of the pages ps, each at the place given by the number of pages
\* before it: oldest first by posted date, by origin date, and the reverses
PostedOrder(ps) ==
    [i \in 1..Cardinality(ps) |->
        (CHOOSE p \in ps : Cardinality({q \in ps : PostedBefore(q, p)}) = i - 1).id]
OriginOrder(ps) ==
    [i \in 1..Cardinality(ps) |->
        (CHOOSE p \in ps : Cardinality({q \in ps : OriginBefore(q, p)}) = i - 1).id]

Prefix(s, limit) == IF limit.some /\ limit.n < Len(s) THEN SubSeq(s, 1, limit.n) ELSE s

Called == selArgs # NoArgs

\* C4 as claimed: with dated=true and the default sort key, select returns the
\* dated pages newest posted date first, and with chrono=true the same pages in
\* exactly the reverse order; a limit keeps the first limit entries.
C4_Claimed ==
    (Called /\ selArgs.dated /\ selArgs.sortby = "None") =>
        selOut = Prefix(IF selArgs.chrono THEN PostedOrder(Dated)
                        ELSE Reverse(PostedOrder(Dated)), selArgs.limit)

\* C4, amended: with chrono=false the dated pages come newest posted date
\* first; with chrono=true they come oldest origin date first (the date, not the
\* posted date, then the id), which is the reverse order whenever no page has a
\* posted date that differs from its date.  An explicit sortby_origin chooses
\* the key, dated=false keeps every page, a limit keeps the first limit entries.
C4_SelectOrder ==
    Called =>
        LET ps == IF selArgs.dated THEN Dated ELSE Range(pages)
            origin == IF selArgs.sortby = "None" THEN selArgs.chrono
                      ELSE selArgs.sortby = "True"
            asc == IF origin THEN OriginOrder(ps) ELSE PostedOrder(ps)
        IN  /\ selOut = Prefix(IF selArgs.chrono THEN asc ELSE Reverse(asc), selArgs.limit)
            /\ (selArgs.dated /\ selArgs.sortby = "None" /\ selArgs.chrono
                  /\ \A pg \in Dated : PostedOf(pg) = pg.date)
                    => selOut = Prefix(PostedOrder(Dated), selArgs.limit)

\* select(chrono=true) was called on three dated pages, one of them with a
\* posted date, beside their archive pages
C4_Witness ==
    /\ Called
    /\ selArgs.dated /\ selArgs.chrono /\ selArgs.sortby = "None" /\ ~selArgs.limit.some
    /\ Len(selOut) = 3
    /\ ArchivePages # {}
    /\ \E pg \in Dated : pg.posted # NoneDate

----------------------------------------------------------------------------
(* join_url, called after the configuration is loaded (SpecUrl). *)

S_blog == <<"b", "l", "o", "g">>
S_post == <<"p", "o", "s", "t">>

UrlValues ==
    {PyString(S_blog), PyString(S_post), PyString(<<>>), PyString(<<"/">>),
     PyString(<<"/">> \o S_blog \o <<"/">>), PyInt(2019), PyInt(0), PyFalse}

RECURSIVE SeqsUpTo(_, _)
SeqsUpTo(S, n) ==
    IF n = 0 THEN {<<>>}
    ELSE LET T == SeqsUpTo(S, n - 1)
         IN  T \cup {Append(t, x) : t \in {u \in T : Len(u) = n - 1}, x \in S}

InitUrl ==
    /\ InitCommon
    /\ pc = "config"
    /\ options \in {Defaults, [Defaults EXCEPT !.clean_urls = TRUE]}
    /\ deploy0 = EmptyMap
    /\ deployFiles = EmptyMap
    /\ content = {}
    /\ assets = EmptyMap
    /\ now = 1
    /\ urlParts \in SeqsUpTo(UrlValues, MaxParts)
    /\ urlExt \in BOOLEAN
    /\ urlOut = NoResult

NextUrl ==
    \/ LoadConfig
    \/ JoinUrlCall

SpecUrl == InitUrl /\ [][NextUrl]_vars

BlogPost == <<PyString(S_blog), PyString(S_post)>>

\* C9 as claimed: join_url("blog", "post", ext=true) is "/blog/post" with clean
\* urls and "/blog/post.html" without.
C9_Claimed ==
    (urlOut # NoResult /\ urlParts = BlogPost /\ urlExt) =>
        urlOut = <<"/">> \o S_blog \o <<"/">> \o S_post
                    \o (IF clean_urls THEN <<>> ELSE HtmlExt)

EndsWithHtml(s) == Len(s) >= 5 /\ SubSeq(s, Len(s) - 4, Len(s)) = HtmlExt

\* the arguments that take part in the result: non-empty strings and non-zero
\* integers
Kept(parts) == SelectSeq(parts, LAMBDA v : v.s # <<>> \/ v.n # 0)

\* C9, amended: join_url("blog", "post", ext=true) is "blog/post" with clean
\* urls and "blog/post.html" without: the same path in both modes, with no
\* leading slash.  For all arguments, ".html" is appended exactly when ext is true
\* and clean_urls is false, and the result starts with a slash only when the
\* first non-empty argument does.
C9_JoinUrl ==
    urlOut # NoResult =>
        /\ EndsWithHtml(urlOut) <=> (urlExt /\ ~clean_urls)
        /\ urlParts = BlogPost =>
              urlOut = S_blog \o <<"/">> \o S_post
                          \o (IF urlExt /\ ~clean_urls THEN HtmlExt ELSE <<>>)
        /\ (urlOut # <<>> /\ urlOut[1] = "/") =>
              /\ Kept(urlParts) # <<>>
              /\ Kept(urlParts)[1].s # <<>>
              /\ Kept(urlParts)[1].s[1] = "/"

\* join_url("blog", "post", ext=true) was called in clean-url mode
C9_Witness ==
    /\ urlOut = S_blog \o <<"/">> \o S_post
    /\ urlParts = BlogPost
    /\ urlExt
    /\ clean_urls

====
